---- MODULE Spec2Model ----
(***************************************************************************)
(* File Gateway Lambda (src/src/app.py): lambda_handler dispatches an API  *)
(* Gateway proxy event to handle_upload_preparation (POST /files) or       *)
(* handle_download (GET /files/...), which call the S3 client.             *)
(*                                                                         *)
(* Data representation.  A Python/JSON value is a record [t, v, n, a]:     *)
(*   t = "null" | "str" | "num" | "arr" | "obj"                            *)
(*   v = the content of a str, as a sequence of units                      *)
(*   n = the value of a num                                                *)
(*   a = the elements of an arr, or the (key, val) items of an obj in      *)
(*       insertion order                                                   *)
(* A string is a sequence of units.  The unit is chosen per field so that  *)
(* the operations the code applies to it are exact: a path is cut at its   *)
(* "/" characters (== and startswith('/files/')), an objectKey is cut into *)
(* characters (unquote), a request or response body is cut into JSON       *)
(* lexemes (json.loads / json.dumps), and every other string is one unit.  *)
(***************************************************************************)
EXTENDS Integers, Sequences, FiniteSets, TLC

VARIABLES event, store, result, calls

vars == <<event, store, result, calls>>

(* ------------------------- Python / JSON values ------------------------ *)

JNull == [t |-> "null", v |-> <<>>, n |-> 0, a |-> <<>>]

JStr(s) == [t |-> "str", v |-> s, n |-> 0, a |-> <<>>]

JNum(k) == [t |-> "num", v |-> <<>>, n |-> k, a |-> <<>>]

JArr(elems) == [t |-> "arr", v |-> <<>>, n |-> 0, a |-> elems]

JObj(items) == [t |-> "obj", v |-> <<>>, n |-> 0, a |-> items]

Item(k, x) == [key |-> k, val |-> x]

\* type(x).__name__ as it appears in Python's error messages
TypeName(x) ==
    CASE x.t = "null" -> "NoneType"
      [] x.t = "str"  -> "str"
      [] x.t = "num"  -> "int"
      [] x.t = "arr"  -> "list"
      [] x.t = "obj"  -> "dict"

\* Python truthiness, as used by "if not filename" / "if not object_key"
Truthy(x) ==
    CASE x.t = "null" -> FALSE
      [] x.t = "str"  -> x.v # <<>>
      [] x.t = "num"  -> x.n # 0
      [] x.t = "arr"  -> x.a # <<>>
      [] x.t = "obj"  -> x.a # <<>>

HasKey(d, k) == \E i \in 1..Len(d.a) : d.a[i].key = k

\* dict.get(k, default) on a dict d
DictGet(d, k, default) ==
    IF HasKey(d, k)
    THEN d.a[CHOOSE i \in 1..Len(d.a) : d.a[i].key = k].val
    ELSE default

\* d[k] = x on the item list of a dict: an existing key keeps its position
DictSet(items, k, x) ==
    IF \E i \in 1..Len(items) : items[i].key = k
    THEN [i \in 1..Len(items) |->
            IF items[i].key = k THEN Item(k, x) ELSE items[i]]
    ELSE Append(items, Item(k, x))

\* str.startswith
StartsWith(s, prefix) ==
    /\ Len(s) >= Len(prefix)
    /\ SubSeq(s, 1, Len(prefix)) = prefix

(* ------------------------------ JSON text ------------------------------ *)
(* A JSON text is a sequence of lexemes [k, s, n]:                         *)
(*   k = "{" "}" "[" "]" ":" "," "null" "num" "str", or "junk" for text    *)
(*   that is no JSON lexeme; s = content of a str; n = value of a num.     *)

Lex(kind) == [k |-> kind, s |-> <<>>, n |-> 0]

LexStr(content) == [k |-> "str", s |-> content, n |-> 0]

LexNum(value) == [k |-> "num", s |-> <<>>, n |-> value]

ParseFail == [ok |-> FALSE, val |-> JNull, pos |-> 0]

ParseOk(x, p) == [ok |-> TRUE, val |-> x, pos |-> p]

RECURSIVE ParseValue(_, _)
RECURSIVE ParseElems(_, _, _)
RECURSIVE ParseMembers(_, _, _)

\* json.decoder scan_once: one JSON value starting at lexeme i
ParseValue(ts, i) ==
    IF i > Len(ts) THEN ParseFail
    ELSE CASE ts[i].k = "null" -> ParseOk(JNull, i + 1)
           [] ts[i].k = "num"  -> ParseOk(JNum(ts[i].n), i + 1)
           [] ts[i].k = "str"  -> ParseOk(JStr(ts[i].s), i + 1)
           [] ts[i].k = "["    ->
                IF i + 1 <= Len(ts) /\ ts[i + 1].k = "]"
                THEN ParseOk(JArr(<<>>), i + 2)
                ELSE ParseElems(ts, i + 1, <<>>)
           [] ts[i].k = "{"    ->
                IF i + 1 <= Len(ts) /\ ts[i + 1].k = "}"
                THEN ParseOk(JObj(<<>>), i + 2)
                ELSE ParseMembers(ts, i + 1, <<>>)
           [] OTHER -> ParseFail

\* json.decoder JSONArray: value ("," value)* "]"
ParseElems(ts, i, acc) ==
    LET r == ParseValue(ts, i) IN
    IF ~r.ok \/ r.pos > Len(ts) THEN ParseFail
    ELSE IF ts[r.pos].k = "]" THEN ParseOk(JArr(Append(acc, r.val)), r.pos + 1)
    ELSE IF ts[r.pos].k = "," THEN ParseElems(ts, r.pos + 1, Append(acc, r.val))
    ELSE ParseFail

\* json.decoder JSONObject: string ":" value ("," string ":" value)* "}"
ParseMembers(ts, i, acc) ==
    IF i + 1 > Len(ts) \/ ts[i].k # "str" \/ ts[i + 1].k # ":" THEN ParseFail
    ELSE LET r == ParseValue(ts, i + 2) IN
         IF ~r.ok \/ r.pos > Len(ts) THEN ParseFail
         ELSE LET acc2 == DictSet(acc, ts[i].s, r.val) IN
              IF ts[r.pos].k = "}" THEN ParseOk(JObj(acc2), r.pos + 1)
              ELSE IF ts[r.pos].k = "," THEN ParseMembers(ts, r.pos + 1, acc2)
              ELSE ParseFail

\* json.loads(s): "ok", or the exception it raises.  A non-str argument
\* raises TypeError; text that is not exactly one JSON value raises
\* json.JSONDecodeError.
json_loads(x) ==
    IF x.t # "str"
    THEN [exc |-> "TypeError", val |-> JNull,
          msg |-> <<"the JSON object must be str, bytes or bytearray, not ",
                    TypeName(x)>>]
    ELSE LET r == ParseValue(x.v, 1) IN
         IF r.ok /\ r.pos = Len(x.v) + 1
         THEN [exc |-> "none", val |-> r.val, msg |-> <<>>]
         ELSE [exc |-> "JSONDecodeError", val |-> JNull,
               msg |-> <<"Expecting value">>]

RECURSIVE DumpValue(_)
RECURSIVE DumpElems(_, _)
RECURSIVE DumpItems(_, _)

\* json.dumps(x) as a lexeme sequence
DumpValue(x) ==
    CASE x.t = "null" -> <<Lex("null")>>
      [] x.t = "num"  -> <<LexNum(x.n)>>
      [] x.t = "str"  -> <<LexStr(x.v)>>
      [] x.t = "arr"  -> <<Lex("[")>> \o DumpElems(x.a, 1) \o <<Lex("]")>>
      [] x.t = "obj"  -> <<Lex("{")>> \o DumpItems(x.a, 1) \o <<Lex("}")>>

DumpElems(elems, i) ==
    IF i > Len(elems) THEN <<>>
    ELSE DumpValue(elems[i])
         \o (IF i < Len(elems) THEN <<Lex(",")>> ELSE <<>>)
         \o DumpElems(elems, i + 1)

DumpItems(items, i) ==
    IF i > Len(items) THEN <<>>
    ELSE <<LexStr(items[i].key), Lex(":")>> \o DumpValue(items[i].val)
         \o (IF i < Len(items) THEN <<Lex(",")>> ELSE <<>>)
         \o DumpItems(items, i + 1)

json_dumps(x) == DumpValue(x)

(* ------------------------- urllib.parse.unquote ------------------------ *)

\* The printable ASCII characters, chr(32) .. chr(126); chr(96), the grave
\* accent, is written "\\x60"
Ascii ==
    <<" ", "!", "\"", "#", "$", "%", "&", "'", "(", ")", "*", "+", ",", "-", ".", "/",
       "0", "1", "2", "3", "4", "5", "6", "7", "8", "9", ":", ";", "<", "=", ">", "?",
       "@", "A", "B", "C", "D", "E", "F", "G", "H", "I", "J", "K", "L", "M", "N", "O",
       "P", "Q", "R", "S", "T", "U", "V", "W", "X", "Y", "Z", "[", "\\", "]", "^", "_",
       "\\x60", "a", "b", "c", "d", "e", "f", "g", "h", "i", "j", "k", "l", "m", "n", "o",
       "p", "q", "r", "s", "t", "u", "v", "w", "x", "y", "z", "{", "|", "}", "~">>

HexDigits ==
    <<"0", "1", "2", "3", "4", "5", "6", "7", "8", "9",
      "a", "b", "c", "d", "e", "f", "A", "B", "C", "D", "E", "F">>

IsHex(c) == \E i \in 1..Len(HexDigits) : HexDigits[i] = c

\* int(c, 16)
HexVal(c) ==
    LET i == CHOOSE j \in 1..Len(HexDigits) : HexDigits[j] = c
    IN IF i <= 16 THEN i - 1 ELSE i - 7

\* bytes([b]).decode('utf-8', errors='replace') for a byte standing alone:
\* an ASCII byte is its character, any other byte is U+FFFD.
Chr(b) ==
    IF b >= 32 /\ b <= 126 THEN Ascii[b - 31]
    ELSE IF b < 128 THEN "\\x" \o ToString(b)
    ELSE "\\ufffd"

RECURSIVE unquote(_)

\* urllib.parse.unquote on a sequence of characters: every "%" followed by
\* two hex digits becomes the character with that code, every other
\* character (a "%" not followed by two hex digits included) is kept; the
\* output is not scanned again.
unquote(s) ==
    IF s = <<>> THEN <<>>
    ELSE IF s[1] = "%" /\ Len(s) >= 3 /\ IsHex(s[2]) /\ IsHex(s[3])
         THEN <<Chr(16 * HexVal(s[2]) + HexVal(s[3]))>>
              \o unquote(SubSeq(s, 4, Len(s)))
         ELSE <<s[1]>> \o unquote(Tail(s))

(* --------------------------- the S3 client ----------------------------- *)
(* The answers of the object store in one invocation:                      *)
(*   store.head = "200" (the object exists), or the Error.Code of the      *)
(*                ClientError that head_object raises ("404" = not found)  *)
(*   store.put, store.get = [err, url]: generate_presigned_url returns url *)
(*                or, when err, raises ClientError                         *)
(* A failing store call raises botocore's ClientError, the exception the   *)
(* except clauses of the handlers name.                                    *)

BUCKET_NAME == <<"file-gateway-bucket">>

UPLOAD_EXPIRES_IN == 900

DOWNLOAD_EXPIRES_IN == 3600

Call(operation, key, contentType, ttl) ==
    [op |-> operation, Bucket |-> BUCKET_NAME, Key |-> key,
     ContentType |-> contentType, ExpiresIn |-> ttl]

\* str(e) of the ClientError head_object raises with Error.Code = code
HeadErrorMsg(code) ==
    <<"An error occurred (", code, ") when calling the HeadObject operation">>

(* ------------------------------ responses ------------------------------ *)

NoResponse == [statusCode |-> 0, headers |-> <<>>, body |-> <<>>]

JsonHeaders == [h \in {"Content-Type"} |-> <<"application/json">>]

Response(status, hdrs, bodyItems) ==
    [statusCode |-> status, headers |-> hdrs,
     body |-> json_dumps(JObj(bodyItems))]

ErrorResponse(status, message) ==
    Response(status, JsonHeaders, <<Item(<<"error">>, JStr(message))>>)

\* a handler's outcome: it returns a response, or an exception leaves it
Return(resp, cs) ==
    [kind |-> "return", resp |-> resp, exc |-> "none", msg |-> <<>>,
     calls |-> cs]

Raise(exception, message, cs) ==
    [kind |-> "raise", resp |-> NoResponse, exc |-> exception,
     msg |-> message, calls |-> cs]

AttributeErrorMsg(x, attr) ==
    <<"'", TypeName(x), "' object has no attribute '", attr, "'">>

(* ------------------------------ handlers ------------------------------- *)

\* a changed upload_object_key: the key is put under a prefix
upload_object_key_Prefixed(filename) ==
    IF filename.t = "str" THEN JStr(<<"uploads/">> \o filename.v)
    ELSE filename

\* object_key = filename: the filename is the object key as it stands
upload_object_key(filename) == filename

\* a changed upload_presign_failed: the presign call is made a second time
upload_presign_failed_Retried(cs) ==
    Return(ErrorResponse(500, <<"Failed to generate upload URL">>), cs \o cs)

\* the "except ClientError" of the upload presign call
upload_presign_failed(cs) ==
    Return(ErrorResponse(500, <<"Failed to generate upload URL">>), cs)

\* handle_upload_preparation(event), with the store answering st
handle_upload_preparation(ev, st) ==
    LET parsed == json_loads(DictGet(ev, <<"body">>,
                                     JStr(<<Lex("{"), Lex("}")>>)))
    IN
    IF parsed.exc = "JSONDecodeError"
    THEN Return(ErrorResponse(400, <<"Invalid JSON in request body">>), <<>>)
    ELSE IF parsed.exc # "none"
    THEN Raise(parsed.exc, parsed.msg, <<>>)
    ELSE
    LET body == parsed.val IN
    IF body.t # "obj"
    THEN Raise("AttributeError", AttributeErrorMsg(body, "get"), <<>>)
    ELSE
    LET filename == DictGet(body, <<"filename">>, JNull) IN
    IF ~Truthy(filename)
    THEN Return(ErrorResponse(400, <<"filename is required">>), <<>>)
    ELSE
    LET content_type == DictGet(body, <<"contentType">>,
                                JStr(<<"application/octet-stream">>))
        object_key == upload_object_key(filename)
        cs == <<Call("presignUpload", object_key, content_type,
                     UPLOAD_EXPIRES_IN)>>
    IN
    IF st.put.err
    THEN upload_presign_failed(cs)
    ELSE Return(Response(200, JsonHeaders,
                  <<Item(<<"objectKey">>, object_key),
                    Item(<<"uploadUrl">>, JStr(st.put.url)),
                    Item(<<"method">>, JStr(<<"PUT">>)),
                    Item(<<"contentType">>, content_type),
                    Item(<<"expiresIn">>, JNum(900))>>), cs)

\* a changed download_object_key: the raw path parameter is used
download_object_key_Raw(raw) == raw

\* object_key = unquote(object_key)
download_object_key(raw) == unquote(raw)

\* a changed IsNotFound: the code S3 gives on GetObject, not on HeadObject
IsNotFound_NoSuchKey(code) == code = "NoSuchKey"

\* e.response['Error']['Code'] == '404'
IsNotFound(code) == code = "404"

\* a changed redirect_response: a 302 without the Location header
redirect_response_Found(url) ==
    Response(302, JsonHeaders,
             <<Item(<<"message">>, JStr(<<"Redirecting to download URL">>)),
               Item(<<"expiresIn">>, JNum(3600))>>)

\* the 307 Temporary Redirect that handle_download returns
redirect_response(url) ==
    Response(307,
             [h \in {"Location", "Content-Type"} |->
                IF h = "Location" THEN url ELSE <<"application/json">>],
             <<Item(<<"message">>, JStr(<<"Redirecting to download URL">>)),
               Item(<<"expiresIn">>, JNum(3600))>>)

\* handle_download(event), with the store answering st
handle_download(ev, st) ==
    LET path_parameters == DictGet(ev, <<"pathParameters">>, JObj(<<>>)) IN
    IF path_parameters.t # "obj"
    THEN Raise("AttributeError", AttributeErrorMsg(path_parameters, "get"),
               <<>>)
    ELSE
    LET raw_key == DictGet(path_parameters, <<"objectKey">>, JNull) IN
    IF ~Truthy(raw_key)
    THEN Return(ErrorResponse(400, <<"objectKey is required">>), <<>>)
    ELSE IF raw_key.t # "str"
    THEN Raise("TypeError",
               <<"argument of type '", TypeName(raw_key), "' is not iterable">>,
               <<>>)
    ELSE
    LET object_key == JStr(download_object_key(raw_key.v))
        headCall == Call("headObject", object_key, JNull, 0)
        getCall == Call("presignDownload", object_key, JNull,
                        DOWNLOAD_EXPIRES_IN)
    IN
    IF st.head # "200" /\ IsNotFound(st.head)
    THEN Return(ErrorResponse(404, <<"File not found">>), <<headCall>>)
    ELSE IF st.head # "200"
    THEN Raise("ClientError", HeadErrorMsg(st.head), <<headCall>>)
    ELSE IF st.get.err
    THEN Return(ErrorResponse(500, <<"Failed to generate download URL">>),
                <<headCall, getCall>>)
    ELSE Return(redirect_response(st.get.url), <<headCall, getCall>>)

\* the route lambda_handler takes: "upload", "download", "notfound", or
\* "fault" when evaluating the condition itself raises
Route(ev) ==
    LET http_method == DictGet(ev, <<"httpMethod">>, JNull)
        path == DictGet(ev, <<"path">>, JStr(<<>>))
    IN
    IF http_method = JStr(<<"POST">>) /\ path = JStr(<<"/", "files">>)
    THEN "upload"
    ELSE IF http_method = JStr(<<"GET">>)
    THEN IF path.t # "str" THEN "fault"
         ELSE IF StartsWith(path.v, <<"/", "files", "/">>) THEN "download"
         ELSE "notfound"
    ELSE "notfound"

\* the body of lambda_handler's try block
Dispatch(ev, st) ==
    CASE Route(ev) = "upload"   -> handle_upload_preparation(ev, st)
      [] Route(ev) = "download" -> handle_download(ev, st)
      [] Route(ev) = "notfound" ->
            Return(ErrorResponse(404, <<"Not found">>), <<>>)
      [] Route(ev) = "fault"    ->
            Raise("AttributeError",
                  AttributeErrorMsg(DictGet(ev, <<"path">>, JStr(<<>>)),
                                    "startswith"), <<>>)

\* a changed lambda_handler: the try block without its "except Exception"
lambda_handler_NoExcept(ev, st) == Dispatch(ev, st)

\* lambda_handler(event, context): the try block and its "except Exception"
lambda_handler(ev, st) ==
    LET r == Dispatch(ev, st) IN
    IF r.kind = "raise"
    THEN Return(ErrorResponse(500, r.msg), r.calls)
    ELSE r

(* ----------------------------- environment ----------------------------- *)

MaxKeyLen == 4

MaxBodyLen == 2

\* marks a field the event does not carry
Absent == [t |-> "absent", v |-> <<>>, n |-> 0, a |-> <<>>]

\* the API Gateway proxy event with the given fields
MkEvent(method, path, pathParameters, body) ==
    JObj(SelectSeq(<<Item(<<"httpMethod">>, method),
                     Item(<<"path">>, path),
                     Item(<<"pathParameters">>, pathParameters),
                     Item(<<"body">>, body)>>,
                   LAMBDA it : it.val.t # "absent"))

Methods ==
    {Absent, JStr(<<"POST">>), JStr(<<"GET">>), JStr(<<"PUT">>),
     JStr(<<"post">>)}

Paths ==
    {Absent, JNull, JStr(<<>>),
     JStr(<<"/", "files">>),
     JStr(<<"/", "files", "/">>),
     JStr(<<"/", "files", "/", "t">>),
     JStr(<<"/", "filesx">>),
     JStr(<<"/", "v1", "/", "files", "/", "t">>)}

DownloadPaths ==
    {JStr(<<"/", "files", "/">>), JStr(<<"/", "files", "/", "t">>)}

KeyAlphabet == {"%", "2", "0", "5", "t"}

\* the non-empty objectKey path parameters, as character sequences
Keys == UNION {[1..len -> KeyAlphabet] : len \in 1..MaxKeyLen}

KeyParam(x) == JObj(<<Item(<<"objectKey">>, x)>>)

PathParams ==
    {Absent, JNull, JObj(<<>>),
     JObj(<<Item(<<"proxy">>, JStr(<<"t">>))>>),
     KeyParam(JNull), KeyParam(JStr(<<>>)), KeyParam(JNum(5))}
    \cup {KeyParam(JStr(key)) : key \in Keys}

FewPathParams == {Absent, JNull, KeyParam(JStr(<<"t">>))}

FILENAME == LexStr(<<"filename">>)

CONTENT_TYPE == LexStr(<<"contentType">>)

\* request bodies written out lexeme by lexeme
WrittenBodies ==
    { <<Lex("{"), FILENAME, Lex(":"), LexStr(<<"report.pdf">>), Lex("}")>>,
      <<Lex("{"), FILENAME, Lex(":"), LexStr(<<"report.pdf">>), Lex(","),
        CONTENT_TYPE, Lex(":"), LexStr(<<"application/pdf">>), Lex("}")>>,
      <<Lex("{"), CONTENT_TYPE, Lex(":"), LexStr(<<"application/pdf">>),
        Lex(","), FILENAME, Lex(":"), LexStr(<<"a%20b.txt">>), Lex("}")>>,
      <<Lex("{"), FILENAME, Lex(":"), LexStr(<<"../x">>), Lex(","),
        CONTENT_TYPE, Lex(":"), Lex("null"), Lex("}")>>,
      <<Lex("{"), FILENAME, Lex(":"), LexNum(7), Lex("}")>>,
      <<Lex("{"), FILENAME, Lex(":"), LexStr(<<"a">>), Lex(","),
        FILENAME, Lex(":"), LexStr(<<"b">>), Lex("}")>>,
      <<Lex("{"), FILENAME, Lex(":"), LexStr(<<>>), Lex("}")>>,
      <<Lex("{"), FILENAME, Lex(":"), Lex("null"), Lex("}")>>,
      <<Lex("{"), FILENAME, Lex(":"), LexNum(0), Lex("}")>>,
      <<Lex("{"), FILENAME, Lex(":"), Lex("["), Lex("]"), Lex("}")>>,
      <<Lex("{"), CONTENT_TYPE, Lex(":"), LexStr(<<"text/plain">>), Lex("}")>>,
      <<Lex("{"), FILENAME, Lex(":"), LexStr(<<"report.pdf">>), Lex(","),
        Lex("}")>>,
      <<Lex("{"), FILENAME, Lex(":"), LexStr(<<"report.pdf">>)>>,
      <<Lex("{"), FILENAME, LexStr(<<"report.pdf">>), Lex("}")>>,
      <<Lex("["), LexNum(1), Lex(","), LexStr(<<"x">>), Lex("]")>>,
      <<Lex("["), LexNum(1), Lex(","), Lex("]")>>,
      <<Lex("{"), Lex("}"), Lex("{"), Lex("}")>> }

BodyAlphabet ==
    {Lex("{"), Lex("}"), Lex("["), Lex("]"), Lex(":"), Lex(","),
     Lex("null"), LexNum(1), FILENAME, LexStr(<<"report.pdf">>), Lex("junk")}

\* every text of at most MaxBodyLen lexemes, the empty string included
ShortBodies == UNION {[1..len -> BodyAlphabet] : len \in 0..MaxBodyLen}

Bodies ==
    {Absent, JNull, JNum(5)}
    \cup {JStr(text) : text \in WrittenBodies \cup ShortBodies}

FewBodies ==
    {Absent, JNull,
     JStr(<<Lex("{"), FILENAME, Lex(":"), LexStr(<<"report.pdf">>),
            Lex("}")>>)}

\* the events: every method and path; every body on POST /files; every
\* path parameter on GET /files/...
Events ==
    {MkEvent(m, p, pp, b) :
        m \in Methods, p \in Paths, pp \in FewPathParams, b \in FewBodies}
    \cup {MkEvent(JStr(<<"POST">>), JStr(<<"/", "files">>), pp, b) :
            pp \in {Absent, JNull}, b \in Bodies}
    \cup {MkEvent(JStr(<<"GET">>), p, pp, Absent) :
            p \in DownloadPaths, pp \in PathParams}

UploadUrls == {<<"https://s3/put?sig=1">>, <<"https://s3/put?sig=2">>}

DownloadUrls == {<<"https://s3/get?sig=1">>, <<"https://s3/get?sig=2">>}

Presigned(urls) ==
    {[err |-> FALSE, url |-> u] : u \in urls} \cup {[err |-> TRUE, url |-> <<>>]}

Stores ==
    [head : {"200", "404", "403"},
     put : Presigned(UploadUrls),
     get : Presigned(DownloadUrls)]

(* --------------------------- the state machine ------------------------- *)
(* event, store: the request the platform delivers and what the object     *)
(* store answers during its invocation; result: "idle" until               *)
(* lambda_handler has run, then how it ended; calls: the object-store      *)
(* calls it made, in order.  One behaviour is one invocation: no state     *)
(* survives from one invocation to the next.                               *)

Idle == [kind |-> "idle", resp |-> NoResponse, exc |-> "none", msg |-> <<>>]

Init ==
    /\ event \in Events
    /\ store \in Stores
    /\ result = Idle
    /\ calls = <<>>

\* the invocation of lambda_handler on the delivered event
Invoke ==
    /\ result.kind = "idle"
    /\ LET r == lambda_handler(event, store) IN
       /\ result' = [kind |-> r.kind, resp |-> r.resp, exc |-> r.exc,
                     msg |-> r.msg]
       /\ calls' = r.calls
    /\ UNCHANGED <<event, store>>

Next == Invoke

Spec == Init /\ [][Next]_vars

(* ------------------------------ properties ----------------------------- *)

Invoked == result.kind # "idle"

Status == result.resp.statusCode

\* the response body, read back as JSON
ParsedBody == json_loads(JStr(result.resp.body))

ReturnsBody(status, items) ==
    /\ result.kind = "return"
    /\ Status = status
    /\ ParsedBody.exc = "none"
    /\ ParsedBody.val = JObj(items)

ReturnsError(status, message) ==
    ReturnsBody(status, <<Item(<<"error">>, JStr(message))>>)

HasJsonContentType ==
    /\ "Content-Type" \in DOMAIN result.resp.headers
    /\ result.resp.headers["Content-Type"] = <<"application/json">>

Called(operation) == \E i \in 1..Len(calls) : calls[i].op = operation

TimesCalled(operation) ==
    Cardinality({i \in 1..Len(calls) : calls[i].op = operation})

\* the request as the claims describe it
ReqMethod == DictGet(event, <<"httpMethod">>, Absent)

ReqPath == DictGet(event, <<"path">>, Absent)

ReqBody == DictGet(event, <<"body">>, Absent)

ReqPathParams == DictGet(event, <<"pathParameters">>, Absent)

IsPostFiles ==
    ReqMethod = JStr(<<"POST">>) /\ ReqPath = JStr(<<"/", "files">>)

IsGetFilesPrefix ==
    /\ ReqMethod = JStr(<<"GET">>)
    /\ ReqPath.t = "str"
    /\ Len(ReqPath.v) >= 3
    /\ ReqPath.v[1] = "/" /\ ReqPath.v[2] = "files" /\ ReqPath.v[3] = "/"

\* the request body as a JSON value, when it is a string holding one
BodyJson == json_loads(ReqBody)

BodyIsObject ==
    ReqBody.t = "str" /\ BodyJson.exc = "none" /\ BodyJson.val.t = "obj"

ReqFilename == DictGet(BodyJson.val, <<"filename">>, Absent)

NonEmptyFilename ==
    /\ BodyIsObject
    /\ ReqFilename.t \notin {"absent", "null"}
    /\ Truthy(ReqFilename)

\* the objectKey path parameter, when pathParameters is a mapping
ReqKey ==
    IF ReqPathParams.t = "obj"
    THEN DictGet(ReqPathParams, <<"objectKey">>, Absent)
    ELSE Absent

NonEmptyKey == ReqKey.t = "str" /\ ReqKey.v # <<>>

\* C1: lambda_handler always ends by returning a response whose status is
\* 200, 307, 400, 404 or 500, whose headers hold
\* Content-Type = application/json and whose body is JSON; no fault leaves it.
C1_AlwaysWellFormedResponse ==
    Invoked =>
        /\ result.kind = "return"
        /\ Status \in {200, 307, 400, 404, 500}
        /\ HasJsonContentType
        /\ ParsedBody.exc = "none"
        /\ ParsedBody.val.t = "obj"

\* C1 witness: a GET whose path is null faults inside the try block and the
\* fault comes back as a 500 carrying its message.
C1_Witness ==
    /\ Invoked
    /\ ReqMethod = JStr(<<"GET">>)
    /\ ReqPath.t = "null"
    /\ ReturnsError(500, AttributeErrorMsg(JNull, "startswith"))
    /\ HasJsonContentType

\* C2: a request goes to upload preparation iff it is POST /files, to
\* download iff it is a GET on a path beginning with /files/, and every
\* other request gets 404 {"error": "Not found"} with no object-store call.
C2_DispatchExact ==
    Invoked =>
        /\ (Route(event) = "upload") <=> IsPostFiles
        /\ (Route(event) = "download") <=> IsGetFilesPrefix
        /\ (~IsPostFiles /\ ~IsGetFilesPrefix) =>
              (ReturnsError(404, <<"Not found">>) /\ calls = <<>>)

\* C3: POST /files with a JSON object body holding a non-empty filename,
\* the presign succeeding: 200 with objectKey = filename, uploadUrl = the
\* URL the store returned, method PUT, contentType as supplied (else
\* application/octet-stream), expiresIn 900; the only store call is one
\* presignUpload(bucket, filename, contentType, 900).
C3_UploadSuccess ==
    (Invoked /\ IsPostFiles /\ NonEmptyFilename /\ ~store.put.err) =>
        LET contentType == DictGet(BodyJson.val, <<"contentType">>,
                                   JStr(<<"application/octet-stream">>))
        IN
        /\ ReturnsBody(200, <<Item(<<"objectKey">>, ReqFilename),
                              Item(<<"uploadUrl">>, JStr(store.put.url)),
                              Item(<<"method">>, JStr(<<"PUT">>)),
                              Item(<<"contentType">>, contentType),
                              Item(<<"expiresIn">>, JNum(900))>>)
        /\ calls = <<[op |-> "presignUpload",
                      Bucket |-> BUCKET_NAME,
                      Key |-> ReqFilename,
                      ContentType |-> contentType,
                      ExpiresIn |-> 900]>>

\* C3 witness: {"filename": "report.pdf"} without contentType was answered
\* 200 after one presignUpload call.
C3_Witness ==
    /\ Invoked /\ IsPostFiles /\ NonEmptyFilename /\ ~store.put.err
    /\ ReqFilename = JStr(<<"report.pdf">>)
    /\ ~HasKey(BodyJson.val, <<"contentType">>)
    /\ Status = 200
    /\ Len(calls) = 1

\* C4: POST /files without a non-empty filename (body absent, body null,
\* body a JSON value that is no object, object without filename, filename
\* empty or null) gets 400 {"error": "filename is required"} with no
\* object-store call.
C4_FilenameRequired ==
    (/\ Invoked
     /\ IsPostFiles
     /\ \/ ReqBody.t \in {"absent", "null"}
        \/ ReqBody.t = "str" /\ BodyJson.exc = "none" /\ ~NonEmptyFilename)
    => (ReturnsError(400, <<"filename is required">>) /\ calls = <<>>)

\* C5: POST /files with a body that cannot be parsed as JSON (empty,
\* truncated or malformed text, or a body that is no string) gets
\* 400 {"error": "Invalid JSON in request body"} with no object-store call.
C5_InvalidJson ==
    (/\ Invoked
     /\ IsPostFiles
     /\ ReqBody.t # "absent"
     /\ BodyJson.exc # "none")
    => (ReturnsError(400, <<"Invalid JSON in request body">>) /\ calls = <<>>)

\* C6: GET /files/{key} with a non-empty key that headObject reports as not
\* found gets 404 {"error": "File not found"} and presignDownload is not
\* called; a 307 is returned only after headObject reported the key as
\* existing and before presignDownload was called.
C6_NotFoundAndOrder ==
    /\ (Invoked /\ IsGetFilesPrefix /\ NonEmptyKey /\ store.head = "404") =>
          /\ ReturnsError(404, <<"File not found">>)
          /\ Called("headObject")
          /\ ~Called("presignDownload")
    /\ (Invoked /\ Status = 307) =>
          /\ store.head = "200"
          /\ \E i, j \in 1..Len(calls) :
                /\ i < j
                /\ calls[i].op = "headObject"
                /\ calls[j].op = "presignDownload"

\* C6 witness: a download of a missing key ended 404 after headObject alone.
C6_Witness ==
    /\ Invoked /\ IsGetFilesPrefix /\ NonEmptyKey /\ store.head = "404"
    /\ Status = 404
    /\ Len(calls) = 1 /\ calls[1].op = "headObject"

\* C7: GET /files/{key}, the key existing and presignDownload succeeding:
\* 307 with Location = the non-empty URL presignDownload returned,
\* Content-Type = application/json, body {"message": "Redirecting to
\* download URL", "expiresIn": 3600}; presignDownload was called with a
\* validity of 3600 seconds.
C7_DownloadRedirect ==
    (/\ Invoked /\ IsGetFilesPrefix /\ NonEmptyKey
     /\ store.head = "200" /\ ~store.get.err)
    =>
        /\ ReturnsBody(307,
              <<Item(<<"message">>, JStr(<<"Redirecting to download URL">>)),
                Item(<<"expiresIn">>, JNum(3600))>>)
        /\ DOMAIN result.resp.headers = {"Location", "Content-Type"}
        /\ result.resp.headers["Location"] = store.get.url
        /\ result.resp.headers["Location"] # <<>>
        /\ HasJsonContentType
        /\ \E i \in 1..Len(calls) :
              calls[i].op = "presignDownload" /\ calls[i].ExpiresIn = 3600

\* C7 witness: a redirect to the second of the URLs the store can return.
C7_Witness ==
    /\ Invoked /\ IsGetFilesPrefix /\ NonEmptyKey
    /\ Status = 307
    /\ result.resp.headers["Location"] = <<"https://s3/get?sig=2">>

\* C8: in a download, headObject and presignDownload both get the
\* percent-decoded objectKey path parameter ("t%20" is looked up as "t "),
\* never the parameter as it came when that differs, never something taken
\* from the request path, and both get the same key.
C8_DecodedKey ==
    (Invoked /\ IsGetFilesPrefix /\ NonEmptyKey) =>
        /\ Called("headObject")
        /\ \A i \in 1..Len(calls) :
              /\ calls[i].Key = JStr(unquote(ReqKey.v))
              /\ ReqKey.v = <<"t", "%", "2", "0">> =>
                    calls[i].Key.v = <<"t", " ">>
              /\ ReqKey.v = <<"%", "2", "5", "t">> =>
                    calls[i].Key.v = <<"%", "t">>
              /\ (\A k \in 1..Len(ReqKey.v) : ReqKey.v[k] # "%") =>
                    calls[i].Key.v = ReqKey.v
        /\ \A i, j \in 1..Len(calls) : calls[i].Key = calls[j].Key

\* C8 witness: GET /files/t with objectKey "t%20": both calls got "t ".
C8_Witness ==
    /\ Invoked
    /\ ReqPath = JStr(<<"/", "files", "/", "t">>)
    /\ ReqKey = JStr(<<"t", "%", "2", "0">>)
    /\ Len(calls) = 2
    /\ calls[1].op = "headObject" /\ calls[1].Key.v = <<"t", " ">>
    /\ calls[2].op = "presignDownload" /\ calls[2].Key.v = <<"t", " ">>

\* C9: a GET on a path beginning with /files/ without a usable object key
\* (pathParameters absent or null, a mapping without objectKey, objectKey
\* empty or null) gets 400 {"error": "objectKey is required"} and neither
\* headObject nor presignDownload is called.
C9_ObjectKeyRequired ==
    (/\ Invoked
     /\ IsGetFilesPrefix
     /\ \/ ReqPathParams.t \in {"absent", "null"}
        \/ /\ ReqPathParams.t = "obj"
           /\ \/ ReqKey.t \in {"absent", "null"}
              \/ ReqKey = JStr(<<>>))
    => (ReturnsError(400, <<"objectKey is required">>) /\ calls = <<>>)

====
